---- MODULE Spec2Model ----
(***************************************************************************)
(* Verification model of the Soldered MicroPython driver modules.          *)
(* Each driver is a synchronous wrapper around bus transactions; the model *)
(* keeps one group of variables per driver and one specification per group *)
(* (the drivers share no state).  A bus transaction either succeeds or     *)
(* raises OSError; what a device answers is drawn from small sets.         *)
(***************************************************************************)
EXTENDS Integers, Sequences, FiniteSets, TLC

VARIABLES
    driver,         \* the driver object the program under check was built around
    \* ---- Qwiic base class and the Qwiic-mode sensors built on it
    q_err,          \* Qwiic.err: "none" (the initial 0) or the stored exception
    q_op,           \* the operation that ran last
    q_bus,          \* what the bus did during it: <<writeOk, readOk>>
    q_ret,          \* its integer return value (when it returns an integer)
    q_bytes,        \* its bytes return value (when it returns bytes)
    q_raised,       \* the exception it propagated to the caller, "none" if it returned
    q_io,           \* <<bus writes attempted, bus reads attempted>> during it
    rotaryCount,    \* RotaryEncoder.rotaryCount
    state,          \* RotaryEncoder.state
    \* ---- BMP388 driver and the sensor behind it
    pwrCtrl,        \* BMP388.pwrCtrl, the driver's cached PWR_CTRL
    osrReg,         \* BMP388.osrReg
    odrReg,         \* BMP388.odrReg
    hw_pwr,         \* the sensor's PWR_CTRL register
    hw_int,         \* the sensor's INT_STATUS register (cleared when read)
    hw_data,        \* the sensor's data registers DATA_0 .. DATA_5
    bmp_op,         \* the BMP388 operation that ran last
    bmp_ret,        \* what it returned
    bmp_pwrWrites,  \* PWR_CTRL writes it issued
    bmp_verify1,    \* whether the first PWR_CTRL read-back equalled the value written
    bmp_intRead,    \* the INT_STATUS value it read (-1: it read none)
    bmp_dataReads,  \* the data registers it read: <<first register, length>> or <<>>
    bmp_snap,       \* DATA_0 .. DATA_5 as the sensor held them at the last data read
    bmp_pc,         \* position of the forced-measurement example loop
    \* ---- TMP117 driver and the sensor behind it
    tmp_cfg,        \* the sensor's configuration register
    tmp_op,         \* the TMP117 operation that ran last
    tmp_clears,     \* clearAlertFlags calls it made
    tmp_pins,       \* the alert pin levels it sampled
    tmp_irq,        \* whether the alert callback is registered on the pin
    alert_type,     \* TMP117.alert_type
    \* ---- DRV8825 stepper driver
    _direction,         \* DRV8825._direction
    _steps,             \* DRV8825._steps
    _stepsPerRotation,  \* DRV8825._stepsPerRotation
    _position,          \* DRV8825._position
    _directionPin,      \* level of the direction pin, -1 before begin() creates it
    drv_op,             \* the DRV8825 operation that ran last: <<name, argument>>
    drv_ret,            \* what it returned
    drv_mark,           \* <<position, steps>> when the rotation was last set up
    drv_run,            \* <<clockwise steps, counter-clockwise steps>> since then
    \* ---- DS3234 driver and the SRAM of the chip behind it
    sram,           \* the chip's SRAM, one byte per address
    srama,          \* the chip's SRAM address register (0x18)
    ds_op,          \* the SRAM operation that ran last: <<name, address, type or length>>
    ds_prev,        \* the write operation that ran directly before it, if one did
    ds_arg,         \* what the last write operation was given to store
    ds_ret,         \* what the last read operation returned
    ds_writes,      \* write operations so far
    \* ---- BME688 driver and the registers of the chip behind it
    allowHighTemps, \* self.allowHighTemps
    temp_oss,       \* self.temp_oss
    press_oss,      \* self.press_oss
    hum_oss,        \* self.hum_oss
    bme_regs,       \* the value last written to each register of the chip
    bme_op,         \* the call that ran last: <<name, first argument, second argument>>
    bme_ret,        \* what it returned
    bme_writes,     \* the bus writes it made, in order: <<register, value>>
    bme_bus,        \* the bus carried every transaction of that call
    bme_status,     \* the gas status byte the chip answered in that call, or None
    \* VL53L1X and the MeasureOnInterrupt example
    detected,       \* the global flag the pin callback sets
    irq_pc,         \* the statement the main loop runs next
    gpio1,          \* the sensor's interrupt line: 0 asserted (active low), 1 released
    ranging,        \* the sensor is in continuous ranging mode
    clearOnRead,    \* the chip releases the line when the result is read
    dist,           \* the distance the main loop read last
    irq_calls,      \* how many times the callback was invoked
    irq_pending     \* the callback was invoked and no handling has followed yet

qvars == <<q_err, q_op, q_bus, q_ret, q_bytes, q_raised, q_io, rotaryCount, state>>

bvars == <<pwrCtrl, osrReg, odrReg, hw_pwr, hw_int, hw_data, bmp_op, bmp_ret,
           bmp_pwrWrites, bmp_verify1, bmp_intRead, bmp_dataReads, bmp_snap, bmp_pc>>

tvars == <<tmp_cfg, tmp_op, tmp_clears, tmp_pins, tmp_irq, alert_type>>

dvars == <<_direction, _steps, _stepsPerRotation, _position, _directionPin,
           drv_op, drv_ret, drv_mark, drv_run>>

svars == <<sram, srama, ds_op, ds_prev, ds_arg, ds_ret, ds_writes>>

evars == <<allowHighTemps, temp_oss, press_oss, hum_oss, bme_regs, bme_op, bme_ret,
           bme_writes, bme_bus, bme_status>>

ivars == <<detected, irq_pc, gpio1, ranging, clearOnRead, dist, irq_calls, irq_pending>>

vars == <<driver, qvars, bvars, tvars, dvars, svars, evars, ivars>>

(***************************************************************************)
(* Python helpers                                                          *)
(***************************************************************************)
\* Values a device byte takes in the model.
ByteVals == {0, 1, 255}

\* All byte strings of length n a device can answer with.
BytesOf(n) == [1..n -> ByteVals]

\* data[i] of a Python bytes object (0-based): IndexError past the end.
InRange(data, i) == i + 1 <= Len(data)

\* Two's complement reading of an unsigned value of the given width.
to_signed(value, bits) ==
    IF (value \div (2 ^ (bits - 1))) % 2 = 1 THEN value - 2 ^ bits ELSE value

\* a & b on non-negative integers.
RECURSIVE BitAnd(_, _)
BitAnd(a, b) ==
    IF a = 0 \/ b = 0 THEN 0
    ELSE (a % 2) * (b % 2) + 2 * BitAnd(a \div 2, b \div 2)

\* Bit n of a non-negative integer, and the integer with that bit cleared or set.
Bit(v, n) == (v \div (2 ^ n)) % 2

ClearBit(v, n) == v - Bit(v, n) * (2 ^ n)

SetBit(v, n) == v + (1 - Bit(v, n)) * (2 ^ n)

\* Python's None as a return value; a returned number is a non-empty tuple.
None == <<>>

(***************************************************************************)
(* Qwiic base class (src/Qwiic/Qwiic.py)                                   *)
(***************************************************************************)
\* The result of one base-class call: return value, new err, bus traffic.
QRes(ret, err, w, r) == [ret |-> ret, err |-> err, writes |-> w, reads |-> r]

send_address_swallow(err, wOk) ==
    QRes(0, IF wOk THEN err ELSE "OSError", 1, 0)

send_address(err, wOk) ==
    IF wOk THEN QRes(0, err, 1, 0)
           ELSE QRes(-1, "OSError", 1, 0)

read_data(err, rOk, dev) ==
    IF rOk THEN QRes(dev, err, 0, 1)
           ELSE QRes(<<>>, "OSError", 0, 1)

read_register(err, wOk, rOk, dev) ==
    LET a == send_address(err, wOk)
    IN  IF a.ret # 0
        THEN QRes(<<>>, a.err, a.writes, 0)
        ELSE LET d == read_data(a.err, rOk, dev)
             IN  QRes(d.ret, d.err, a.writes, d.reads)

send_data(err, wOk) ==
    IF wOk THEN QRes(0, err, 1, 0)
           ELSE QRes(-1, "OSError", 1, 0)

QInit ==
    /\ q_err = "none"
    /\ q_op = "init"
    /\ q_bus = <<TRUE, TRUE>>
    /\ q_ret = 0
    /\ q_bytes = <<>>
    /\ q_raised = "none"
    /\ q_io = <<0, 0>>
    /\ rotaryCount = 0
    /\ state = 0

\* Qwiic.send_address(reg_addr)
SendAddress ==
    \E wOk \in BOOLEAN :
        LET r == send_address(q_err, wOk) IN
        /\ q_op' = "send_address"
        /\ q_bus' = <<wOk, TRUE>>
        /\ q_ret' = r.ret
        /\ q_bytes' = <<>>
        /\ q_err' = r.err
        /\ q_raised' = "none"
        /\ q_io' = <<r.writes, r.reads>>
        /\ UNCHANGED <<rotaryCount, state>>

\* Qwiic.send_data(data)
SendData ==
    \E wOk \in BOOLEAN :
        LET r == send_data(q_err, wOk) IN
        /\ q_op' = "send_data"
        /\ q_bus' = <<wOk, TRUE>>
        /\ q_ret' = r.ret
        /\ q_bytes' = <<>>
        /\ q_err' = r.err
        /\ q_raised' = "none"
        /\ q_io' = <<r.writes, r.reads>>
        /\ UNCHANGED <<rotaryCount, state>>

\* Qwiic.read_data(n), n = 2
ReadData ==
    \E rOk \in BOOLEAN, dev \in BytesOf(2) :
        LET r == read_data(q_err, rOk, dev) IN
        /\ q_op' = "read_data"
        /\ q_bus' = <<TRUE, rOk>>
        /\ q_ret' = 0
        /\ q_bytes' = r.ret
        /\ q_err' = r.err
        /\ q_raised' = "none"
        /\ q_io' = <<r.writes, r.reads>>
        /\ UNCHANGED <<rotaryCount, state>>

\* Qwiic.read_register(reg_addr, n), n = 2
ReadRegister ==
    \E wOk \in BOOLEAN, rOk \in BOOLEAN, dev \in BytesOf(2) :
        LET r == read_register(q_err, wOk, rOk, dev) IN
        /\ q_op' = "read_register"
        /\ q_bus' = <<wOk, rOk>>
        /\ q_ret' = 0
        /\ q_bytes' = r.ret
        /\ q_err' = r.err
        /\ q_raised' = "none"
        /\ q_io' = <<r.writes, r.reads>>
        /\ UNCHANGED <<rotaryCount, state>>

(***************************************************************************)
(* Qwiic-mode sensors: UltrasonicSensor, HallEffectAnalog, RotaryEncoder   *)
(***************************************************************************)
\* data[1] << 8 | data[0]; indexing the empty answer raises IndexError.
Word16(data) ==
    IF InRange(data, 1)
    THEN [raised |-> "none", ret |-> data[2] * 256 + data[1]]
    ELSE [raised |-> "IndexError", ret |-> 0]

\* The Qwiic branch of getDuration / getDistance / getReading:
\* data = self.read_register(REG, 2); return data[1] << 8 | data[0]
QwiicWordRead(name) ==
    \E wOk \in BOOLEAN, rOk \in BOOLEAN, dev \in BytesOf(2) :
        LET r == read_register(q_err, wOk, rOk, dev)
            v == Word16(r.ret)
        IN
        /\ q_op' = name
        /\ q_bus' = <<wOk, rOk>>
        /\ q_ret' = v.ret
        /\ q_bytes' = <<>>
        /\ q_err' = r.err
        /\ q_raised' = v.raised
        /\ q_io' = <<r.writes, r.reads>>
        /\ UNCHANGED <<rotaryCount, state>>

\* UltrasonicSensor.getDuration(), Qwiic mode
GetDuration == QwiicWordRead("getDuration")

\* UltrasonicSensor.getDistance(), Qwiic mode
GetDistance == QwiicWordRead("getDistance")

\* HallEffectAnalog.getReading(), Qwiic mode
GetReading == QwiicWordRead("getReading")

\* RotaryEncoder.getData(): ustruct.unpack('<h', data) raises ValueError on a
\* buffer shorter than two bytes, before data[4] is looked at.
getData(data, count, st) ==
    IF Len(data) < 2
    THEN [raised |-> "ValueError", rotaryCount |-> count, state |-> st]
    ELSE IF ~InRange(data, 4)
    THEN [raised |-> "IndexError",
          rotaryCount |-> to_signed(data[2] * 256 + data[1], 16), state |-> st]
    ELSE [raised |-> "none",
          rotaryCount |-> to_signed(data[2] * 256 + data[1], 16), state |-> data[5]]

\* RotaryEncoder.getCount() / getState()
RotaryGet(name) ==
    \E wOk \in BOOLEAN, rOk \in BOOLEAN, lo \in ByteVals, hi \in ByteVals, st \in {0, 6} :
        LET r == read_register(q_err, wOk, rOk, <<lo, hi, 0, 0, st>>)
            g == getData(r.ret, rotaryCount, state)
        IN
        /\ q_op' = name
        /\ q_bus' = <<wOk, rOk>>
        /\ q_ret' = IF g.raised # "none" THEN 0
                    ELSE IF name = "getCount" THEN g.rotaryCount ELSE g.state
        /\ q_bytes' = <<>>
        /\ q_err' = r.err
        /\ q_raised' = g.raised
        /\ q_io' = <<r.writes, r.reads>>
        /\ rotaryCount' = g.rotaryCount
        /\ state' = g.state

GetCount == RotaryGet("getCount")

GetState == RotaryGet("getState")

\* The operation that ran last met a bus exception.
QBusFailed == ~q_bus[1] \/ ~q_bus[2]

QSensorOps == {"getDuration", "getDistance", "getReading", "getCount", "getState"}

\* C1: when the I2C read of getDistance, getDuration, getCount, getState or
\* getReading (Qwiic mode) meets a bus exception, the operation returns a
\* zero sentinel to the caller instead of raising.
C1_SentinelOnBusError ==
    (q_op \in QSensorOps /\ QBusFailed) => (q_raised = "none" /\ q_ret = 0)

\* C2: send_address and send_data return 0 when the bus write succeeds and -1
\* when it raises; read_data returns empty bytes when the bus read raises;
\* read_register returns empty bytes without attempting the read when the
\* address write failed; none propagates an exception and every failure
\* stores the exception in err.
C2_QwiicSentinels ==
    /\ q_op \in {"send_address", "send_data"} =>
          /\ q_raised = "none"
          /\ q_bus[1] => q_ret = 0
          /\ ~q_bus[1] => (q_ret = -1 /\ q_err = "OSError")
    /\ q_op = "read_data" =>
          /\ q_raised = "none"
          /\ ~q_bus[2] => (q_bytes = <<>> /\ q_err = "OSError")
          /\ q_bus[2] => Len(q_bytes) = 2
    /\ q_op = "read_register" =>
          /\ q_raised = "none"
          /\ ~q_bus[1] => (q_bytes = <<>> /\ q_io = <<1, 0>> /\ q_err = "OSError")
          /\ (q_bus[1] /\ ~q_bus[2]) => (q_bytes = <<>> /\ q_io = <<1, 1>> /\ q_err = "OSError")
          /\ (q_bus[1] /\ q_bus[2]) => (Len(q_bytes) = 2 /\ q_io = <<1, 1>>)

\* A read_register whose address write failed, after an earlier success.
C2_Witness ==
    q_op = "read_register" /\ ~q_bus[1] /\ q_bytes = <<>> /\ q_io = <<1, 0>>

(***************************************************************************)
(* BMP388 (src/Sensors/BMP388/BMP388/bmp388.py) and the sensor behind it   *)
(***************************************************************************)
\* Operating modes and settings of bmp388_constants.py (PWR_CTRL bits 4-5,
\* OSR and ODR fields).
SLEEP_MODE == 0
FORCED_MODE == 1
NORMAL_MODE == 3
OVERSAMPLING_X2 == 1
OVERSAMPLING_X16 == 4
TIME_STANDBY_5MS == 0
TIME_STANDBY_80MS == 4

\* What a conversion can leave in DATA_0 .. DATA_5.
SampleData ==
    { <<0, 0, 128, 0, 0, 128>>, <<1, 2, 3, 4, 5, 6>>, <<255, 255, 255, 254, 255, 255>> }

BmpModes == {SLEEP_MODE, FORCED_MODE, NORMAL_MODE}

\* The mode field (bits 4-5) of a PWR_CTRL value.
ModeOf(pwr) == BitAnd(pwr, 48) \div 16

\* The driver's and the sensor's state as one record, threaded through a call.
BmpNow ==
    [pwrCtrl |-> pwrCtrl, osrReg |-> osrReg, odrReg |-> odrReg,
     pwr |-> hw_pwr, int |-> hw_int, data |-> hw_data,
     writes |-> 0, verify1 |-> TRUE]

\* The sensor finishes a pending conversion when c: new data, data-ready
\* raised, and a forced conversion leaves the mode field at sleep.
SensorStep(b, c, d) ==
    IF c /\ ModeOf(b.pwr) # SLEEP_MODE
    THEN [b EXCEPT !.data = d,
                   !.int = 8,
                   !.pwr = IF ModeOf(b.pwr) = NORMAL_MODE THEN b.pwr
                           ELSE BitAnd(b.pwr, 3)]
    ELSE b

\* What the sensor does while a call runs: whether a pending conversion ends
\* before the call's first PWR_CTRL read (c0), between the first write and its
\* read-back (c1), between the second write and its read-back (c2), whether
\* ERR_REG shows conf_err, and the data a conversion delivers.
\* The second write and the ERR_REG read happen only after a conversion ended
\* at c1, and d is delivered only when a conversion ends: the choices nothing
\* reads are kept at one value.
BmpEnv ==
    { e \in [c0 : BOOLEAN, c1 : BOOLEAN, c2 : BOOLEAN, confErr : BOOLEAN, d : SampleData] :
        /\ ~e.c1 => (~e.c2 /\ ~e.confErr)
        /\ (~e.c0 /\ ~e.c1) => e.d = <<0, 0, 128, 0, 0, 128>> }

\* BMP388._write8(BMP388_PWR_CTRL, value)
WritePwrCtrl(b, value) ==
    [b EXCEPT !.pwr = value % 256, !.writes = b.writes + 1]

\* The retry branch of setMode (lines 253-269).
setModeRetry(b, mode, e) ==
    LET b1 == IF e.confErr
              THEN [b EXCEPT !.odrReg = BitAnd(TIME_STANDBY_80MS, 31),
                             !.osrReg = BitAnd(OVERSAMPLING_X2, 7) * 8
                                        + BitAnd(OVERSAMPLING_X2, 7)]
              ELSE b
        b2 == [b1 EXCEPT !.pwrCtrl = BitAnd(b1.pwr, 3) + BitAnd(mode, 3) * 16]
        b3 == WritePwrCtrl(b2, b2.pwrCtrl)
        b4 == SensorStep(b3, e.c2, e.d)
    IN  [b4 EXCEPT !.pwrCtrl = b4.pwr]

setMode_noRetry(b, mode, e) ==
    LET b0 == SensorStep(b, e.c0, e.d)
        b1 == [b0 EXCEPT !.pwrCtrl = BitAnd(b0.pwr, 3) + BitAnd(mode, 3) * 16]
        b2 == WritePwrCtrl(b1, b1.pwrCtrl)
        b3 == SensorStep(b2, e.c1, e.d)
    IN  [b3 EXCEPT !.pwrCtrl = b3.pwr, !.verify1 = (b3.pwr = b2.pwrCtrl)]

\* BMP388.setMode(mode)
setMode(b, mode, e) ==
    LET b0 == SensorStep(b, e.c0, e.d)
        b1 == [b0 EXCEPT !.pwrCtrl = BitAnd(b0.pwr, 3) + BitAnd(mode, 3) * 16]
        b2 == WritePwrCtrl(b1, b1.pwrCtrl)
        b3 == SensorStep(b2, e.c1, e.d)
    IN  IF b3.pwr # b3.pwrCtrl
        THEN setModeRetry([b3 EXCEPT !.verify1 = FALSE], mode, e)
        ELSE [b3 EXCEPT !.pwrCtrl = b3.pwr, !.verify1 = TRUE]

\* BMP388.begin(mode) with the default oversampling, filter and standby; the
\* soft reset clears the sensor's registers.  por and chipOk are what the
\* EVENT and CHIP_ID registers answer.
begin(b, mode, por, chipOk, e) ==
    LET r0 == [b EXCEPT !.pwr = 0, !.int = 0]
    IN  IF ~por \/ ~chipOk THEN [ok |-> FALSE, b |-> r0]
        ELSE
        LET r1 == [r0 EXCEPT !.odrReg = BitAnd(TIME_STANDBY_5MS, 31),
                             !.osrReg = BitAnd(OVERSAMPLING_X2, 7) * 8
                                        + BitAnd(OVERSAMPLING_X16, 7),
                             !.pwrCtrl = 1 + 2 + BitAnd(mode, 3) * 16]
            r2 == WritePwrCtrl(r1, r1.pwrCtrl)
            r3 == SensorStep(r2, e.c1, e.d)
            r4 == IF r3.pwr # r3.pwrCtrl
                  THEN SensorStep(WritePwrCtrl([r3 EXCEPT !.verify1 = FALSE], r3.pwrCtrl),
                                  e.c2, e.d)
                  ELSE [r3 EXCEPT !.verify1 = TRUE]
        IN  [ok |-> TRUE, b |-> [r4 EXCEPT !.pwrCtrl = r4.pwr]]

_dataReady_stayForced(b, e) ==
    [ready |-> BitAnd(b.int, 8) # 0, intRead |-> b.int, b |-> [b EXCEPT !.int = 0]]

\* BMP388._dataReady(): reading INT_STATUS clears it.
_dataReady(b, e) ==
    LET mode == BitAnd(b.pwrCtrl, 48) \div 16
        intStatus == b.int
        b1 == [b EXCEPT !.int = 0]
        drdy == BitAnd(intStatus, 8) # 0
    IN  IF drdy
        THEN [ready |-> TRUE, intRead |-> intStatus,
              b |-> IF mode = FORCED_MODE THEN setMode(b1, SLEEP_MODE, e) ELSE b1]
        ELSE [ready |-> FALSE, intRead |-> intStatus, b |-> b1]

\* BMP388.startForcedConversion()
startForcedConversion(b, e) ==
    IF BitAnd(b.pwrCtrl, 48) = SLEEP_MODE THEN setMode(b, FORCED_MODE, e) ELSE b

\* (data[2] << 16) | (data[1] << 8) | data[0] of the three bytes from register reg.
Adc24(data, reg) == data[reg + 3] * 65536 + data[reg + 2] * 256 + data[reg + 1]

\* The Bosch compensation polynomials are floating-point functions of the raw
\* value and the calibration; the model keeps them as terms over the raw value.
_compensateTemp(uncompTemp) == <<"degC", uncompTemp>>

_compensatePress(uncompPress, tLin) == <<"hPa", uncompPress, tLin>>

Altitude(pressure, temperature) == <<"m", pressure, temperature>>

\* The result of a getter: the values returned, the state, the registers read.
BmpGet(ret, r, reads) == [ret |-> ret, b |-> r.b, intRead |-> r.intRead, reads |-> reads]

getTemperature_fromData0(b, e) ==
    LET r == _dataReady(b, e)
    IN  IF ~r.ready THEN BmpGet(<<None>>, r, <<>>)
        ELSE BmpGet(<<_compensateTemp(Adc24(r.b.data, 0))>>, r, <<3, 3>>)

\* BMP388.getTemperature()
getTemperature(b, e) ==
    LET r == _dataReady(b, e)
    IN  IF ~r.ready THEN BmpGet(<<None>>, r, <<>>)
        ELSE BmpGet(<<_compensateTemp(Adc24(r.b.data, 3))>>, r, <<3, 3>>)

\* BMP388.getTempPres()
getTempPres(b, e) ==
    LET r == _dataReady(b, e)
    IN  IF ~r.ready THEN BmpGet(<<None, None>>, r, <<>>)
        ELSE LET adcPres == Adc24(r.b.data, 0)
                 adcTemp == Adc24(r.b.data, 3)
                 temperature == _compensateTemp(adcTemp)
             IN  BmpGet(<<temperature, _compensatePress(adcPres, temperature)>>, r, <<0, 6>>)

\* BMP388.getPressure()
getPressure(b, e) ==
    LET g == getTempPres(b, e)
    IN  IF g.ret[1] = None THEN [g EXCEPT !.ret = <<None>>]
        ELSE [g EXCEPT !.ret = <<g.ret[2]>>]

\* BMP388.getMeasurements()
getMeasurements(b, e) ==
    LET g == getTempPres(b, e)
    IN  IF g.ret[1] = None THEN [g EXCEPT !.ret = <<None, None, None>>]
        ELSE [g EXCEPT !.ret = <<g.ret[1], g.ret[2], Altitude(g.ret[2], g.ret[1])>>]

\* BMP388.getAltitude()
getAltitude(b, e) ==
    LET g == getMeasurements(b, e)
    IN  IF g.ret[1] = None THEN [g EXCEPT !.ret = <<None>>]
        ELSE [g EXCEPT !.ret = <<g.ret[3]>>]

\* The state after BMP388(): begin() with SLEEP_MODE succeeded.
BmpInit ==
    /\ pwrCtrl = 3
    /\ osrReg = 12
    /\ odrReg = 0
    /\ hw_pwr = 3
    /\ hw_int = 0
    /\ hw_data = <<0, 0, 128, 0, 0, 128>>
    /\ bmp_op = "init"
    /\ bmp_ret = <<>>
    /\ bmp_pwrWrites = 1
    /\ bmp_verify1 = TRUE
    /\ bmp_intRead = -1
    /\ bmp_dataReads = <<>>
    /\ bmp_snap = <<0, 0, 128, 0, 0, 128>>
    /\ bmp_pc = "start"

\* Store a call's outcome.
BmpStore(op, b, ret, intRead, reads) ==
    /\ bmp_op' = op
    /\ pwrCtrl' = b.pwrCtrl
    /\ osrReg' = b.osrReg
    /\ odrReg' = b.odrReg
    /\ hw_pwr' = b.pwr
    /\ hw_int' = b.int
    /\ hw_data' = b.data
    /\ bmp_ret' = ret
    /\ bmp_pwrWrites' = b.writes
    /\ bmp_verify1' = b.verify1
    /\ bmp_intRead' = intRead
    /\ bmp_dataReads' = reads
    /\ bmp_snap' = IF reads # <<>> THEN b.data ELSE bmp_snap

BmpStoreGet(op, g) == BmpStore(op, g.b, g.ret, g.intRead, g.reads)

\* The sensor finishes a conversion between two driver calls.
SensorConvert ==
    /\ ModeOf(hw_pwr) # SLEEP_MODE
    /\ \E d \in SampleData :
        \E b \in {SensorStep(BmpNow, TRUE, d)} :
        /\ hw_pwr' = b.pwr
        /\ hw_int' = b.int
        /\ hw_data' = b.data
    /\ UNCHANGED <<pwrCtrl, osrReg, odrReg, bmp_op, bmp_ret, bmp_pwrWrites,
                   bmp_verify1, bmp_intRead, bmp_dataReads, bmp_snap>>

BmpBegin ==
    \E mode \in BmpModes, por \in BOOLEAN, chipOk \in BOOLEAN, e \in BmpEnv :
        \E r \in {begin(BmpNow, mode, por, chipOk, e)} :
            BmpStore("begin", r.b, <<r.ok>>, -1, <<>>)

BmpSetMode ==
    \E mode \in BmpModes, e \in BmpEnv :
        \E b \in {setMode(BmpNow, mode, e)} : BmpStore("setMode", b, <<>>, -1, <<>>)

BmpStartForcedConversion ==
    \E e \in BmpEnv :
        \E b \in {startForcedConversion(BmpNow, e)} :
            BmpStore("startForcedConversion", b, <<>>, -1, <<>>)

BmpGetTemperature ==
    \E e \in BmpEnv : \E g \in {getTemperature(BmpNow, e)} : BmpStoreGet("getTemperature", g)

BmpGetPressure ==
    \E e \in BmpEnv : \E g \in {getPressure(BmpNow, e)} : BmpStoreGet("getPressure", g)

BmpGetTempPres ==
    \E e \in BmpEnv : \E g \in {getTempPres(BmpNow, e)} : BmpStoreGet("getTempPres", g)

BmpGetAltitude ==
    \E e \in BmpEnv : \E g \in {getAltitude(BmpNow, e)} : BmpStoreGet("getAltitude", g)

BmpGetMeasurements ==
    \E e \in BmpEnv : \E g \in {getMeasurements(BmpNow, e)} : BmpStoreGet("getMeasurements", g)

(***************************************************************************)
(* TMP117 (src/Sensors/TMP117/TMP117/tmp117.py) and the sensor behind it   *)
(***************************************************************************)
\* Reading the configuration register clears the sensor's alert flags (bits
\* 15 and 14); they are read-only, so a write leaves them as they are.
TmpReadClears(cfg) == ClearBit(ClearBit(cfg, 15), 14)

TmpWrite(cfg, value) ==
    (value % 16384) + Bit(cfg, 15) * 32768 + Bit(cfg, 14) * 16384

\* TMP117.writeConfig(config_data): nothing is written while the EEPROM is busy.
writeConfig(cfg, config_data, busy) ==
    IF busy THEN cfg ELSE TmpWrite(cfg, config_data)

\* TMP117.configureAlertMode()
configureAlertMode(cfg, busy) ==
    LET reg_value == ClearBit(ClearBit(ClearBit(cfg, 4), 2), 3)
    IN  writeConfig(TmpReadClears(cfg), reg_value, busy)

\* TMP117.clearAlertFlags()
clearAlertFlags(cfg) ==
    LET clear_value == ClearBit(ClearBit(cfg, 15), 14)
    IN  TmpWrite(TmpReadClears(cfg), clear_value)

\* The sensor raises the high alert again while the driver waits (a), which
\* pulls the active-low alert pin down.
TmpWait(cfg, a) == IF a THEN SetBit(cfg, 15) ELSE cfg

PinLevel(a) == IF a THEN 0 ELSE 1

setAlertCallback_clearOnce(cfg, busy, a1, a2) ==
    LET c1 == configureAlertMode(cfg, busy)
        c2 == TmpWait(clearAlertFlags(c1), a1)
    IN  [cfg |-> c2, clears |-> 1, pins |-> <<PinLevel(a1)>>, irq |-> PinLevel(a1) = 1]

\* TMP117.setAlertCallback(alert_callback, pin)
setAlertCallback(cfg, busy, a1, a2) ==
    LET c1 == configureAlertMode(cfg, busy)
        c2 == TmpWait(clearAlertFlags(c1), a1)
    IN  IF PinLevel(a1) = 1
        THEN [cfg |-> c2, clears |-> 1, pins |-> <<1>>, irq |-> TRUE]
        ELSE LET c3 == TmpWait(clearAlertFlags(c2), a2)
             IN  [cfg |-> c3, clears |-> 2, pins |-> <<0, PinLevel(a2)>>,
                  irq |-> PinLevel(a2) = 1]

\* TMP117.readConfig(): the alert type seen and the register afterwards.
readConfig(cfg) ==
    LET high_alert == Bit(cfg, 15)
        low_alert == Bit(cfg, 14)
        after == TmpReadClears(cfg)
    IN  [reg_value |-> cfg,
         alert_type |-> IF high_alert = 1 THEN 1 ELSE IF low_alert = 1 THEN 2 ELSE 0,
         cfg |-> IF high_alert = 1 \/ low_alert = 1
                 THEN TmpWrite(after, ClearBit(ClearBit(cfg, 15), 14))
                 ELSE after]

\* TMP117.setAlertMode(mode): THERMAL = 0, ALERT = 1, DATA = 2
setAlertMode(cfg, mode, busy) ==
    LET r == readConfig(cfg)
        v == r.reg_value
        reg_value == IF mode = 0 THEN ClearBit(ClearBit(SetBit(v, 4), 2), 3)
                     ELSE IF mode = 1 THEN ClearBit(ClearBit(ClearBit(v, 4), 2), 3)
                     ELSE IF mode = 2 THEN SetBit(v, 2)
                     ELSE v
    IN  [cfg |-> writeConfig(r.cfg, reg_value, busy), alert_type |-> r.alert_type]

\* The state after TMP117(i2c): no bus traffic yet, the sensor at its
\* power-on configuration (0x0220).
TmpInit ==
    /\ tmp_cfg = 544
    /\ tmp_op = "init"
    /\ tmp_clears = 0
    /\ tmp_pins = <<>>
    /\ tmp_irq = FALSE
    /\ alert_type = 0

TmpSetAlertCallback ==
    \E busy \in BOOLEAN, a1 \in BOOLEAN, a2 \in BOOLEAN :
        LET r == setAlertCallback(tmp_cfg, busy, a1, a2) IN
        /\ tmp_op' = "setAlertCallback"
        /\ tmp_cfg' = r.cfg
        /\ tmp_clears' = r.clears
        /\ tmp_pins' = r.pins
        /\ tmp_irq' = (tmp_irq \/ r.irq)
        /\ UNCHANGED alert_type

TmpSetAlertMode ==
    \E mode \in 0..2, busy \in BOOLEAN :
        LET r == setAlertMode(tmp_cfg, mode, busy) IN
        /\ tmp_op' = "setAlertMode"
        /\ tmp_cfg' = r.cfg
        /\ alert_type' = r.alert_type
        /\ tmp_clears' = 0
        /\ tmp_pins' = <<>>
        /\ UNCHANGED tmp_irq

\* The temperature crosses a limit: the sensor sets an alert flag.
TmpSensorAlert ==
    /\ \E n \in {14, 15} : tmp_cfg' = SetBit(tmp_cfg, n)
    /\ Bit(tmp_cfg, 14) = 0 \/ Bit(tmp_cfg, 15) = 0
    /\ tmp_cfg' # tmp_cfg
    /\ UNCHANGED <<tmp_op, tmp_clears, tmp_pins, tmp_irq, alert_type>>

(***************************************************************************)
(* The forced-measurement example loop                                     *)
(* (src/Sensors/BMP388/BMP388/Examples/bmp388-forcedMeasurement.py)        *)
(***************************************************************************)
\* bmp388.startForcedConversion()
LoopStart ==
    /\ bmp_pc = "start"
    /\ BmpStartForcedConversion
    /\ bmp_pc' = "poll"

\* temperature, pressure, altitude = bmp388.getMeasurements(); print and
\* leave the inner loop when temperature is not None
LoopPoll ==
    /\ bmp_pc = "poll"
    /\ BmpGetMeasurements
    /\ bmp_pc' = IF bmp_ret'[1] # None THEN "pause" ELSE "wait"

\* time.sleep(0.02) before the next poll, time.sleep(1) before the next
\* measurement
LoopSleep ==
    /\ bmp_pc \in {"wait", "pause"}
    /\ bmp_pc' = IF bmp_pc = "wait" THEN "poll" ELSE "start"
    /\ UNCHANGED <<pwrCtrl, osrReg, odrReg, hw_pwr, hw_int, hw_data, bmp_op, bmp_ret,
                   bmp_pwrWrites, bmp_verify1, bmp_intRead, bmp_dataReads, bmp_snap>>

(***************************************************************************)
(* Claims about the BMP388 and the TMP117                                  *)
(***************************************************************************)
BmpBeginPassed == bmp_op = "begin" /\ bmp_ret = <<TRUE>>

\* C3 as stated: no operation re-issues a register write: setMode and begin
\* write PWR_CTRL exactly once per call whatever is read back, and
\* setAlertCallback clears the alert flags exactly once.
C3_NoRetry ==
    /\ (bmp_op = "setMode" \/ BmpBeginPassed) => bmp_pwrWrites = 1
    /\ tmp_op = "setAlertCallback" => tmp_clears = 1

\* C3 as amended: setMode and a begin that passed the reset and chip-ID checks
\* write PWR_CTRL once when the first read-back equals the value written and
\* exactly twice (one retry, never more) when it differs; setAlertCallback
\* clears the alert flags once when the alert pin reads high after the first
\* clear and exactly twice when it reads low.
C3_SingleRetry ==
    /\ (bmp_op = "setMode" \/ BmpBeginPassed) =>
          bmp_pwrWrites = (IF bmp_verify1 THEN 1 ELSE 2)
    /\ tmp_op = "setAlertCallback" =>
          /\ Len(tmp_pins) >= 1
          /\ tmp_clears = (IF tmp_pins[1] = 1 THEN 1 ELSE 2)

\* A setMode whose first read-back differed from the value written.
C3_Witness == bmp_op = "setMode" /\ ~bmp_verify1 /\ bmp_pwrWrites = 2

BmpGetters == {"getTemperature", "getPressure", "getTempPres", "getAltitude", "getMeasurements"}

\* What each getter returns for the data registers as they stand.
BmpExpected(op, data) ==
    LET t == _compensateTemp(Adc24(data, 3))
        p == _compensatePress(Adc24(data, 0), t)
    IN  CASE op = "getTemperature" -> <<t>>
          [] op = "getPressure" -> <<p>>
          [] op = "getTempPres" -> <<t, p>>
          [] op = "getAltitude" -> <<Altitude(p, t)>>
          [] op = "getMeasurements" -> <<t, p, Altitude(p, t)>>

\* C8: when bit 3 of the INT_STATUS value a getter reads is clear it returns
\* None (one None per result) and reads no data register; when the bit is set
\* it returns the values computed from the data registers read in that call.
C8_GettersGateOnDrdy ==
    bmp_op \in BmpGetters =>
        IF Bit(bmp_intRead, 3) = 0
        THEN /\ \A i \in 1..Len(bmp_ret) : bmp_ret[i] = None
             /\ Len(bmp_ret) = Len(BmpExpected(bmp_op, bmp_snap))
             /\ bmp_dataReads = <<>>
        ELSE /\ bmp_ret = BmpExpected(bmp_op, bmp_snap)
             /\ bmp_dataReads = (IF bmp_op = "getTemperature" THEN <<3, 3>> ELSE <<0, 6>>)

\* getMeasurements returned a measurement taken from fresh data registers.
C8_Witness ==
    /\ bmp_op = "getMeasurements"
    /\ Bit(bmp_intRead, 3) = 1
    /\ Len(bmp_ret) = 3
    /\ bmp_ret[1] = <<"degC", 394500>>

\* C7: in the forced-measurement loop the cached mode is SLEEP_MODE whenever
\* startForcedConversion is about to be called, so every call writes PWR_CTRL
\* and starts a conversion, and every call is eventually followed by a
\* getMeasurements that returns a measurement.
C7_ForcedLoopProgress ==
    /\ [](bmp_pc = "start" => ModeOf(pwrCtrl) = SLEEP_MODE)
    /\ [](bmp_op = "startForcedConversion" => bmp_pwrWrites >= 1)
    /\ [](bmp_pc = "poll" => <>(bmp_pc = "pause" /\ bmp_op = "getMeasurements"))

\* A loop iteration ended: getMeasurements returned a measurement and wrote
\* the return to SLEEP_MODE.
C7_Witness ==
    /\ bmp_pc = "pause"
    /\ bmp_pwrWrites = 1
    /\ bmp_op = "getMeasurements"
    /\ bmp_ret[1] # None
    /\ ModeOf(pwrCtrl) = SLEEP_MODE

(***************************************************************************)
(* DRV8825 (src/DRV8825/drv8825.py)                                        *)
(***************************************************************************)
CLOCK_WISE == 1
COUNTER_CLOCK_WISE == 0

\* Largest steps-per-rotation and position arguments tried, largest step
\* count reached, longest run of steps in one direction.
MaxRotation == 3
MaxSteps == 6
MaxRun == 3

\* The state after DRV8825().
DrvInit ==
    /\ _direction = COUNTER_CLOCK_WISE
    /\ _steps = 0
    /\ _stepsPerRotation = 0
    /\ _position = 0
    /\ _directionPin = -1
    /\ drv_op = <<"init", 0>>
    /\ drv_ret = <<>>
    /\ drv_mark = <<0, 0>>
    /\ drv_run = <<0, 0>>

\* DRV8825.begin(DIR, STEP)
DrvBegin ==
    /\ _directionPin' = 0
    /\ drv_op' = <<"begin", 0>>
    /\ drv_ret' = <<TRUE>>
    /\ UNCHANGED <<_direction, _steps, _stepsPerRotation, _position, drv_mark, drv_run>>

\* DRV8825.setStepsPerRotation(steps)
DrvSetStepsPerRotation ==
    \E steps \in 0..MaxRotation :
        /\ _stepsPerRotation' = steps
        /\ drv_op' = <<"setStepsPerRotation", steps>>
        /\ drv_ret' = <<>>
        /\ drv_mark' = <<_position, _steps>>
        /\ drv_run' = <<0, 0>>
        /\ UNCHANGED <<_direction, _steps, _position, _directionPin>>

\* DRV8825.setDirection(direction); the pin exists once begin() has run.
DrvSetDirection ==
    /\ _directionPin # -1
    /\ \E direction \in 0..2 :
        /\ drv_op' = <<"setDirection", direction>>
        /\ IF direction \notin {0, 1}
           THEN /\ drv_ret' = <<FALSE>>
                /\ UNCHANGED <<_direction, _directionPin>>
           ELSE /\ drv_ret' = <<TRUE>>
                /\ _direction' = direction
                /\ _directionPin' = direction
        /\ UNCHANGED <<_steps, _stepsPerRotation, _position, drv_mark, drv_run>>

stepPosition_noWrap(position, direction, stepsPerRotation) ==
    IF stepsPerRotation > 0
    THEN IF direction = CLOCK_WISE
         THEN (position + 1) % stepsPerRotation
         ELSE position - 1
    ELSE position

\* The position update of DRV8825.step() (lines 110-116).
stepPosition(position, direction, stepsPerRotation) ==
    IF stepsPerRotation > 0
    THEN IF direction = CLOCK_WISE
         THEN (position + 1) % stepsPerRotation
         ELSE (position - 1 + stepsPerRotation) % stepsPerRotation
    ELSE position

\* DRV8825.step(); the step pin exists once begin() has run.
DrvStep ==
    /\ _directionPin # -1
    /\ _steps < MaxSteps
    /\ (IF _direction = CLOCK_WISE THEN drv_run[1] ELSE drv_run[2]) < MaxRun
    /\ _steps' = _steps + 1
    /\ _position' = stepPosition(_position, _direction, _stepsPerRotation)
    /\ drv_op' = <<"step", 0>>
    /\ drv_ret' = <<>>
    /\ drv_run' = IF _direction = CLOCK_WISE
                  THEN <<drv_run[1] + 1, drv_run[2]>>
                  ELSE <<drv_run[1], drv_run[2] + 1>>
    /\ UNCHANGED <<_direction, _stepsPerRotation, _directionPin, drv_mark>>

\* DRV8825.resetSteps(s)
DrvResetSteps ==
    \E s \in {0, 1} :
        /\ _steps' = s
        /\ drv_op' = <<"resetSteps", s>>
        /\ drv_ret' = <<_steps>>
        /\ drv_mark' = <<_position, s>>
        /\ drv_run' = <<0, 0>>
        /\ UNCHANGED <<_direction, _stepsPerRotation, _position, _directionPin>>

\* DRV8825.setPosition(pos)
setPosition(position, pos, stepsPerRotation) ==
    IF pos >= stepsPerRotation
    THEN [ret |-> FALSE, position |-> position]
    ELSE [ret |-> TRUE, position |-> pos]

DrvSetPosition ==
    \E pos \in (-1)..MaxRotation :
        LET r == setPosition(_position, pos, _stepsPerRotation) IN
        /\ _position' = r.position
        /\ drv_op' = <<"setPosition", pos>>
        /\ drv_ret' = <<r.ret>>
        /\ drv_mark' = <<r.position, _steps>>
        /\ drv_run' = <<0, 0>>
        /\ UNCHANGED <<_direction, _steps, _stepsPerRotation, _directionPin>>

\* C4: after begin(), whenever getStepsPerRotation() > 0 the position lies
\* within one rotation, and setPosition(pos) returns True and stores pos only
\* for a position of the rotation and returns False otherwise.
C4_PositionWithinRotation ==
    /\ _stepsPerRotation > 0 => (0 <= _position /\ _position < _stepsPerRotation)
    /\ drv_op[1] = "setPosition" =>
          IF 0 <= drv_op[2] /\ drv_op[2] < _stepsPerRotation
          THEN drv_ret = <<TRUE>> /\ _position = drv_op[2]
          ELSE drv_ret = <<FALSE>>

\* C5: with stepsPerRotation = N > 0 and the position within 0..N-1 when the
\* run of steps began, every step adds one to getSteps() and moves the
\* position by +1 (clockwise) or -1 (counter-clockwise) modulo N, so N steps
\* in one direction, or k steps one way and k steps back, return the position
\* to where the run began.
C5_StepsWrapAround ==
    (_stepsPerRotation > 0 /\ drv_mark[1] \in 0..(_stepsPerRotation - 1)) =>
        /\ _steps = drv_mark[2] + drv_run[1] + drv_run[2]
        /\ _position = (drv_mark[1] + drv_run[1] - drv_run[2]) % _stepsPerRotation
        /\ drv_run[1] = drv_run[2] => _position = drv_mark[1]
        /\ (drv_run \in {<<_stepsPerRotation, 0>>, <<0, _stepsPerRotation>>}) =>
              _position = drv_mark[1]

\* Three steps clockwise and three back on a rotation of three steps, begun
\* at position 2.
C5_Witness ==
    /\ _stepsPerRotation = 3
    /\ drv_mark[1] = 2
    /\ drv_run = <<3, 3>>
    /\ _position = 2

(***************************************************************************)
(* DS3234 SRAM access (src/Actuators/DS3234/DS3234/ds3234.py)              *)
(***************************************************************************)
DS3234_REGISTER_SRAMA == 24
DS3234_REGISTER_SRAMD == 25

\* The DS3234 has 256 bytes of SRAM.
SramSize == 256

\* Write operations in one run.
MaxWrites == 1

\* The chip takes the bytes of one SPI write to a register: the address
\* register keeps the byte written to it; every byte written to the data
\* register goes to the SRAM cell the address register names, which then
\* moves to the next cell.
RECURSIVE ChipWrite(_, _, _)
ChipWrite(chip, reg, values) ==
    IF values = <<>> THEN chip
    ELSE IF reg = DS3234_REGISTER_SRAMA
    THEN ChipWrite([chip EXCEPT !.srama = Head(values)], reg, Tail(values))
    ELSE IF reg = DS3234_REGISTER_SRAMD
    THEN ChipWrite([sram |-> [chip.sram EXCEPT ![chip.srama] = Head(values)],
                    srama |-> (chip.srama + 1) % SramSize],
                   reg, Tail(values))
    ELSE chip

\* The chip answers a read of length bytes from the data register.
RECURSIVE ChipRead(_, _, _)
ChipRead(chip, reg, length) ==
    IF length = 0 \/ reg # DS3234_REGISTER_SRAMD THEN [chip |-> chip, values |-> <<>>]
    ELSE LET rest == ChipRead([chip EXCEPT !.srama = (chip.srama + 1) % SramSize],
                              reg, length - 1)
         IN  [chip |-> rest.chip, values |-> <<chip.sram[chip.srama]>> \o rest.values]

\* DS3234._spi_write_bytes(reg, values): write_reg = reg | 0x80 selects reg for writing
_spi_write_bytes(chip, reg, values) == ChipWrite(chip, (reg + 128) - 128, values)

\* DS3234._spi_write_byte(reg, value)
_spi_write_byte(chip, reg, value) == ChipWrite(chip, (reg + 128) - 128, <<value>>)

\* DS3234._spi_read_bytes(reg, length)
_spi_read_bytes(chip, reg, length) == ChipRead(chip, reg, length)

\* DS3234._spi_read_byte(reg)
_spi_read_byte(chip, reg) ==
    LET r == ChipRead(chip, reg, 1) IN [chip |-> r.chip, value |-> r.values[1]]

\* struct.pack('<' + code, value): the low len bytes, least significant first.
RECURSIVE pack(_, _)
pack(value, len) ==
    IF len = 0 THEN <<>>
    ELSE <<value % 256>> \o pack(value \div 256, len - 1)

\* A Python integer: <<n, <<>>>> when it is within TLC's 32-bit
\* integers, <<0, its little-endian bytes>> when it is wider.
PyInt(n) == <<n, <<>>>>

\* The value of buf is within 32 bits: the bytes above the fourth only extend
\* the sign.
Narrow(buf, signed) ==
    \/ Len(buf) < 4
    \/ /\ Len(buf) = 4
       /\ signed \/ buf[4] < 128
    \/ /\ Len(buf) > 4
       /\ \/ buf[4] < 128 /\ \A i \in 5..Len(buf) : buf[i] = 0
          \/ signed /\ buf[4] >= 128 /\ \A i \in 5..Len(buf) : buf[i] = 255

RECURSIVE unpackFrom(_, _, _)
unpackFrom(buf, i, acc) ==
    IF i = 0 THEN acc ELSE unpackFrom(buf, i - 1, acc * 256 + buf[i])

\* struct.unpack('<' + code, buf)[0]: the bytes read most significant first,
\* the top byte as a signed byte for the signed codes.
unpack(buf, signed) ==
    LET top == buf[Len(buf)]
    IN  IF Narrow(buf, signed)
        THEN PyInt(unpackFrom(buf, Len(buf) - 1,
                              IF signed /\ top >= 128 THEN top - 256 ELSE top))
        ELSE <<0, buf>>

\* The integer data types of writeToSRAMValue / readFromSRAMValue.
DsTypes == {"uint8", "uint16", "uint32", "uint64", "int8", "int16", "int32", "int64"}

TypeLength(data_type) ==
    CASE data_type \in {"uint8", "int8"} -> 1
      [] data_type \in {"uint16", "int16"} -> 2
      [] data_type \in {"uint32", "int32"} -> 4
      [] data_type \in {"uint64", "int64"} -> 8

TypeSigned(data_type) == data_type \in {"int8", "int16", "int32", "int64"}

\* Values of each type tried (within TLC's 32-bit integers).
DsValues(data_type) ==
    CASE data_type = "uint8" -> {200, 255}
      [] data_type = "int8" -> {-128, 127}
      [] data_type = "uint16" -> {258, 65535}
      [] data_type = "int16" -> {-32768, 32767}
      [] data_type = "uint32" -> {16909060, 2147483647}
      [] data_type = "int32" -> {-2147483647, 16909060}
      [] data_type = "uint64" -> {16909060, 2147483647}
      [] data_type = "int64" -> {-2147483647, 16909060}

DsAddresses == {161, 255}

DsBuffers == { <<101, 102, 103, 104, 199, 255>>, <<1, 2>> }

ChipNow == [sram |-> sram, srama |-> srama]

\* DS3234.writeToSRAM(address, data)
writeToSRAM(chip, address, data) ==
    _spi_write_byte(_spi_write_byte(chip, DS3234_REGISTER_SRAMA, address),
                    DS3234_REGISTER_SRAMD, data)

\* DS3234.writeToSRAMBuffer(address, values)
writeToSRAMBuffer(chip, address, values) ==
    _spi_write_bytes(_spi_write_byte(chip, DS3234_REGISTER_SRAMA, address),
                     DS3234_REGISTER_SRAMD, values)

\* DS3234.writeToSRAMValue(address, value, data_type)
writeToSRAMValue(chip, address, value, data_type) ==
    LET buf == IF data_type = "uint8" THEN <<value % 256>>
               ELSE pack(value, TypeLength(data_type))
    IN  writeToSRAMBuffer(chip, address, buf)

\* DS3234.readFromSRAM(address)
readFromSRAM(chip, address) ==
    _spi_read_byte(_spi_write_byte(chip, DS3234_REGISTER_SRAMA, address),
                   DS3234_REGISTER_SRAMD)

readFromSRAMBuffer_noAddress(chip, address, length) ==
    _spi_read_bytes(chip, DS3234_REGISTER_SRAMD, length)

\* DS3234.readFromSRAMBuffer(address, length)
readFromSRAMBuffer(chip, address, length) ==
    _spi_read_bytes(_spi_write_byte(chip, DS3234_REGISTER_SRAMA, address),
                    DS3234_REGISTER_SRAMD, length)

\* DS3234.readFromSRAMValue(address, data_type)
readFromSRAMValue(chip, address, data_type) ==
    LET r == readFromSRAMBuffer(chip, address, TypeLength(data_type))
    IN  [chip |-> r.chip, value |-> unpack(r.values, TypeSigned(data_type))]

\* The SRAM is battery-backed: any content at start; the model takes one with
\* different bytes in neighbouring cells.  The address register starts at 0.
DsInit ==
    /\ sram = [a \in 0..(SramSize - 1) |-> (a * 7 + 3) % 256]
    /\ srama = 0
    /\ ds_op = <<"init", 0, 0>>
    /\ ds_prev = <<"none", 0, 0>>
    /\ ds_arg = <<>>
    /\ ds_ret = <<>>
    /\ ds_writes = 0

DsWrote(name, chip, address, what, arg) ==
    /\ sram' = chip.sram
    /\ srama' = chip.srama
    /\ ds_prev' = IF ds_arg # <<>> /\ ds_ret = <<>> THEN ds_op ELSE <<"none", 0, 0>>
    /\ ds_op' = <<name, address, what>>
    /\ ds_arg' = arg
    /\ ds_ret' = <<>>
    /\ ds_writes' = ds_writes + 1

DsDidRead(name, chip, address, what, ret) ==
    /\ sram' = chip.sram
    /\ srama' = chip.srama
    /\ ds_prev' = IF ds_arg # <<>> /\ ds_ret = <<>> THEN ds_op ELSE <<"none", 0, 0>>
    /\ ds_op' = <<name, address, what>>
    /\ ds_ret' = ret
    /\ UNCHANGED <<ds_arg, ds_writes>>

DsWriteToSRAM ==
    /\ ds_writes < MaxWrites
    /\ \E address \in DsAddresses, data \in {42, 255} :
        \E chip \in {writeToSRAM(ChipNow, address, data)} :
        DsWrote("writeToSRAM", chip, address, 1, <<data>>)

DsWriteToSRAMBuffer ==
    /\ ds_writes < MaxWrites
    /\ \E address \in DsAddresses, values \in DsBuffers :
        \E chip \in {writeToSRAMBuffer(ChipNow, address, values)} :
        DsWrote("writeToSRAMBuffer", chip, address, Len(values), values)

DsWriteToSRAMValue ==
    /\ ds_writes < MaxWrites
    /\ \E address \in DsAddresses, data_type \in DsTypes :
        \E value \in DsValues(data_type) :
        \E chip \in {writeToSRAMValue(ChipNow, address, value, data_type)} :
            DsWrote("writeToSRAMValue", chip, address, data_type, PyInt(value))

DsReadFromSRAM ==
    \E address \in DsAddresses :
        \E r \in {readFromSRAM(ChipNow, address)} :
        DsDidRead("readFromSRAM", r.chip, address, 1, <<r.value>>)

DsReadFromSRAMBuffer ==
    \E address \in DsAddresses, length \in {2, 6} :
        \E r \in {readFromSRAMBuffer(ChipNow, address, length)} :
        DsDidRead("readFromSRAMBuffer", r.chip, address, length, r.values)

DsReadFromSRAMValue ==
    \E address \in DsAddresses, data_type \in DsTypes :
        \E r \in {readFromSRAMValue(ChipNow, address, data_type)} :
        DsDidRead("readFromSRAMValue", r.chip, address, data_type, r.value)

\* C6: a read that directly follows the write of the same kind, at the same
\* address and with the same type or length, returns what was written.
C6_SramRoundTrip ==
    /\ (ds_op[1] = "readFromSRAMValue" /\ ds_prev = <<"writeToSRAMValue", ds_op[2], ds_op[3]>>)
          => ds_ret = ds_arg
    /\ (ds_op[1] = "readFromSRAM" /\ ds_prev = <<"writeToSRAM", ds_op[2], 1>>)
          => ds_ret = ds_arg
    /\ (ds_op[1] = "readFromSRAMBuffer" /\ ds_prev = <<"writeToSRAMBuffer", ds_op[2], ds_op[3]>>)
          => ds_ret = ds_arg

\* A negative int64 written at the last SRAM address (it wraps to address 0)
\* and read back.
C6_Witness ==
    /\ ds_op = <<"readFromSRAMValue", 255, "int64">>
    /\ ds_prev = <<"writeToSRAMValue", 255, "int64">>
    /\ ds_ret = PyInt(-2147483647)
    /\ sram[255] = 1
    /\ sram[2] = 128
    /\ sram[6] = 255

(***************************************************************************)
(* BME688 (src/Sensors/BME688/BME688/bme688.py, bme688_const.py)           *)
(***************************************************************************)
BME_688_CTRL_MEAS_REG == 116
BME_688_CTRL_MEAS_HUM_REG == 114
BME_688_OSS_1 == 1
BME_688_OSS_16 == 5
BME_688_FORCED_MODE == 1
BME_688_PARALLEL_MODE == 2
BME_688_CTRL_GAS_REG == 113
BME_688_IIR_FILTER_REG == 117
BME_688_IIR_FILTER_C15 == 4
BME_688_GAS_HEAT_STAB_MASK == 16
BME_688_GAS_VALID_REG_MASK == 32
BME_688_GAS_RANGE_VAL_MASK == 15
BME_688_GAS_RUN == 32
BME_688_GAS_PROFILE_START == 0
BME_688_HEAT_PLATE_MAX_TEMP == 425
BME_688_HEAT_PLATE_ULTRA_TEMP == 600
BME_688_GAS_WAIT_PROFILE_REG == 100
BME_688_GAS_RES_HEAT_PROFILE_REG == 90
BME_688_GAS_START_TEMP == 200
BME_688_GAS_WAIT_MULFAC1 == 0

\* setHeatProfiles: for i in range(9)
HeatProfilesWritten == 9

\* readGas: 0 <= profile < 10
HeatProfilesAccepted == 10

\* The registers the driver writes: gas control, humidity and measurement
\* control, filter, and ten heater-resistance and ten gas-wait registers.
BmeRegisters ==
    {BME_688_CTRL_GAS_REG, BME_688_CTRL_MEAS_HUM_REG, BME_688_CTRL_MEAS_REG,
     BME_688_IIR_FILTER_REG}
    \cup (BME_688_GAS_RES_HEAT_PROFILE_REG .. (BME_688_GAS_RES_HEAT_PROFILE_REG + 9))
    \cup (BME_688_GAS_WAIT_PROFILE_REG .. (BME_688_GAS_WAIT_PROFILE_REG + 9))

\* a | b and a << n on non-negative integers.
BitOr(a, b) == a + b - BitAnd(a, b)

Shl(a, n) == a * (2 ^ n)

\* A value on its way to a register is <<kind, n>>: <<"int", n>> is the
\* integer n; the values the driver derives from the calibration floats are
\* kept by what they were computed from.
IntVal(n) == <<"int", n>>

\* Values a call returns: None, or <<kind, a, b>>.
Bool(v) == <<"bool", IF v THEN 1 ELSE 0, 0>>

Float(n) == <<"float", n, 0>>

TypeError == <<"TypeError", 0, 0>>

\* BME688.readUCGas(target_temp): the heater resistance code for target_temp
readUCGas(target_temp) == <<"res_heat", target_temp>>

\* int(0.25 * gasTemp - offset), the heater wait derived from a resistance code
GasWait(gasTemp, offset) ==
    <<IF offset = 22 THEN "gas_wait22" ELSE "gas_wait17", gasTemp[2]>>

\* data & 0xFF
Low8(data) == IF data[1] = "int" THEN IntVal(data[2] % 256) ELSE data

\* BME688.i2c_execute(reg, data) on a bus that carries the write (ok) or
\* raises OSError; b is the chip's registers and the writes made so far.
i2c_execute(b, ok, reg, data) ==
    [regs |-> IF ok THEN [b.regs EXCEPT ![reg] = Low8(data)] ELSE b.regs,
     writes |-> Append(b.writes, <<reg, Low8(data)>>)]

\* self.temp_oss << 5 | self.press_oss << 2 | BME_688_FORCED_MODE
CtrlMeas(t_oss, p_oss, mode) == BitOr(BitOr(Shl(t_oss, 5), Shl(p_oss, 2)), mode)

\* BME688.readTemperature(): the trigger write; raw is the raw reading or None
readTemperature(b, d, ok, raw) ==
    [b |-> i2c_execute(b, ok, BME_688_CTRL_MEAS_REG,
                       IntVal(CtrlMeas(d.temp_oss, d.press_oss, BME_688_FORCED_MODE))),
     ret |-> IF raw = None THEN None ELSE <<"degC", raw[1], 0>>]

RECURSIVE HeatProfileWrites(_, _, _)
HeatProfileWrites(b, ok, i) ==
    IF i >= HeatProfilesWritten THEN b
    ELSE LET gasTemp == readUCGas(BME_688_GAS_START_TEMP + i * 25)
             w == i2c_execute(b, ok, BME_688_GAS_WAIT_PROFILE_REG + i, GasWait(gasTemp, 22))
         IN  HeatProfileWrites(
                 i2c_execute(w, ok, BME_688_GAS_RES_HEAT_PROFILE_REG + i, gasTemp),
                 ok, i + 1)

\* BME688.setHeatProfiles()
setHeatProfiles(b, d, ok, raw) == HeatProfileWrites(readTemperature(b, d, ok, raw).b, ok, 0)

\* BME688.readCalibParams(): the heating profiles are set up if every
\* calibration read succeeded
readCalibParams(b, d, e) ==
    IF e.calib THEN setHeatProfiles(b, d, e.bus, e.raw) ELSE b

\* BME688.isConnected()
isConnected(e) == e.bus /\ e.chip = "ok"

\* begin's three configuration writes, readCalibParams and isConnected
BmeConfigure(b, d, hum, meas, e) ==
    LET w1 == i2c_execute(b, e.bus, BME_688_CTRL_MEAS_HUM_REG, IntVal(hum))
        w2 == i2c_execute(w1, e.bus, BME_688_CTRL_MEAS_REG, IntVal(meas))
        w3 == i2c_execute(w2, e.bus, BME_688_IIR_FILTER_REG, IntVal(BME_688_IIR_FILTER_C15))
    IN  [b |-> readCalibParams(w3, d, e), ret |-> Bool(isConnected(e))]

\* BME688.begin(mode, oss); an argument is None or <<n>>
BME688_begin(b, d, mode, oss, e) ==
    IF mode = None /\ oss = None
    THEN BmeConfigure(b, d, d.hum_oss,
                      CtrlMeas(d.temp_oss, d.press_oss, BME_688_FORCED_MODE), e)
    ELSE IF oss = None
    THEN IF mode[1] <= BME_688_PARALLEL_MODE
         THEN BmeConfigure(b, d, BME_688_OSS_1,
                           CtrlMeas(BME_688_OSS_1, BME_688_OSS_1, mode[1]), e)
         ELSE [b |-> b, ret |-> Bool(FALSE)]
    ELSE IF mode = None
    THEN [b |-> b, ret |-> TypeError]     \* None <= BME_688_PARALLEL_MODE raises
    ELSE IF mode[1] <= BME_688_PARALLEL_MODE /\ oss[1] <= BME_688_OSS_16
         THEN BmeConfigure(b, d, oss[1], CtrlMeas(oss[1], oss[1], mode[1]), e)
         ELSE [b |-> b, ret |-> Bool(FALSE)]

\* BME688.i2c_read_Xbit(reg, 10) of two bytes: big-endian, the low 6 bits dropped
i2c_read_Xbit10(data) == (Shl(data[1], 8) + data[2]) \div 64

\* BME688.startGasMeasurement(profile, waitTime); e.failAt is the bus
\* transaction that raises OSError (0: none), e.status and e.gas what the
\* chip answers.
startGasMeasurement(b, d, profile, waitTime, e) ==
    LET w1 == i2c_execute(b, e.failAt # 1, BME_688_CTRL_GAS_REG,
                          IntVal(BitOr(BME_688_GAS_RUN, profile)))
        w2 == i2c_execute(w1, e.failAt # 2, BME_688_CTRL_MEAS_REG,
                          IntVal(CtrlMeas(d.temp_oss, d.press_oss, BME_688_FORCED_MODE)))
    IN  IF e.failAt = 1 THEN [b |-> w1, ret |-> None]
        ELSE IF e.failAt = 2 THEN [b |-> w2, ret |-> None]
        ELSE IF e.failAt = 3 THEN [b |-> w2, ret |-> None]
        ELSE IF BitAnd(e.status,
                       BitOr(BME_688_GAS_HEAT_STAB_MASK, BME_688_GAS_VALID_REG_MASK)) = 0
        THEN [b |-> w2, ret |-> Float(-2)]
        ELSE IF e.failAt = 4 THEN [b |-> w2, ret |-> None]
        ELSE [b |-> w2,
              ret |-> <<"ohm", i2c_read_Xbit10(e.gas),
                        BitAnd(e.gas[1], BME_688_GAS_RANGE_VAL_MASK)>>]

readGasForTemperature_noUltra(b, d, temperature, e) ==
    IF d.allowHighTemps \/ temperature <= BME_688_HEAT_PLATE_MAX_TEMP
    THEN LET t_temp == readUCGas(temperature)
             t_wait == GasWait(t_temp, 17)
             w1 == i2c_execute(b, e.pre, BME_688_CTRL_GAS_REG, IntVal(32))
             w2 == i2c_execute(w1, e.pre, BME_688_GAS_WAIT_PROFILE_REG, t_wait)
             w3 == i2c_execute(w2, e.pre, BME_688_GAS_RES_HEAT_PROFILE_REG, t_temp)
         IN  startGasMeasurement(w3, d, BME_688_GAS_PROFILE_START, t_wait, e)
    ELSE [b |-> b, ret |-> Float(-1)]

\* BME688.readGasForTemperature(temperature); e.pre: the bus carries the
\* three heater writes
readGasForTemperature(b, d, temperature, e) ==
    IF d.allowHighTemps \/ temperature <= BME_688_HEAT_PLATE_MAX_TEMP
    THEN IF temperature < BME_688_HEAT_PLATE_ULTRA_TEMP
         THEN LET t_temp == readUCGas(temperature)
                  t_wait == GasWait(t_temp, 17)
                  w1 == i2c_execute(b, e.pre, BME_688_CTRL_GAS_REG, IntVal(32))
                  w2 == i2c_execute(w1, e.pre, BME_688_GAS_WAIT_PROFILE_REG, t_wait)
                  w3 == i2c_execute(w2, e.pre, BME_688_GAS_RES_HEAT_PROFILE_REG, t_temp)
              IN  startGasMeasurement(w3, d, BME_688_GAS_PROFILE_START, t_wait, e)
         ELSE [b |-> b, ret |-> Float(-1)]
    ELSE [b |-> b, ret |-> Float(-1)]

\* BME688.readGas(profile)
readGas(b, d, profile, e) ==
    IF 0 <= profile /\ profile < HeatProfilesAccepted
    THEN startGasMeasurement(b, d, profile,
                             GasWait(readUCGas(BME_688_GAS_START_TEMP + profile * 25), 17), e)
    ELSE [b |-> b, ret |-> Float(-1)]

\* What the chip and the bus do during begin: the bus carries the
\* transactions or the sensor is absent; every calibration read succeeds or
\* one fails; the chip ID read; the raw temperature read.
BeginEnv ==
    { e \in [bus : BOOLEAN, calib : BOOLEAN, chip : {"ok", "other"}, raw : {None, <<524288>>}] :
        /\ ~e.bus => (~e.calib /\ e.chip = "other")
        /\ e.raw = IF e.calib THEN <<524288>> ELSE None }

\* What the chip and the bus do during a gas measurement.
GasEnv ==
    { e \in [pre : BOOLEAN, failAt : 0..4, status : {0, 16, 32, 48},
             gas : {<<0, 0>>, <<128, 79>>}] :
        /\ ~e.pre => e.failAt = 1
        /\ e.failAt \in 1..3 => e.status = 0
        /\ e.failAt = 4 => e.status = 48
        /\ e.gas = IF e.failAt = 0 /\ e.status # 0 THEN <<128, 79>> ELSE <<0, 0>> }

\* BME688.__init__: oversampling 1x, high temperatures not allowed; the
\* chip's registers after power-on.
BmeInit ==
    /\ allowHighTemps = FALSE
    /\ temp_oss = BME_688_OSS_1
    /\ press_oss = BME_688_OSS_1
    /\ hum_oss = BME_688_OSS_1
    /\ bme_regs = [r \in BmeRegisters |-> IntVal(0)]
    /\ bme_op = <<"init", None, None>>
    /\ bme_ret = None
    /\ bme_writes = <<>>
    /\ bme_bus = TRUE
    /\ bme_status = None

BmeNow == [allowHighTemps |-> allowHighTemps, temp_oss |-> temp_oss,
           press_oss |-> press_oss, hum_oss |-> hum_oss]

BmeBus == [regs |-> bme_regs, writes |-> <<>>]

\* The status byte read by a measurement: none if the call was refused or the
\* bus failed before or at the status read.
StatusRead(r, e) ==
    IF r.ret = Float(-1) \/ e.failAt \in 1..3 THEN None ELSE <<e.status>>

\* A call that used the bus ends: registers, return value and writes are kept.
BmeDone(name, a1, a2, r, bus, status) ==
    /\ bme_regs' = r.b.regs
    /\ bme_writes' = r.b.writes
    /\ bme_ret' = r.ret
    /\ bme_op' = <<name, a1, a2>>
    /\ bme_bus' = bus
    /\ bme_status' = status

BmeBegin ==
    \E mode \in {None, <<0>>, <<3>>}, oss \in {None, <<5>>, <<6>>}, e \in BeginEnv :
        /\ \E r \in {BME688_begin(BmeBus, BmeNow, mode, oss, e)} :
              BmeDone("begin", mode, oss, r, e.bus, None)
        /\ UNCHANGED <<allowHighTemps, temp_oss, press_oss, hum_oss>>

BmeIgnoreUnsafeTemperatureWarnings ==
    \E ignore \in BOOLEAN :
        /\ allowHighTemps' = ignore
        /\ bme_op' = <<"ignoreUnsafeTemperatureWarnings", Bool(ignore), None>>
        /\ bme_ret' = None
        /\ bme_writes' = <<>>
        /\ bme_bus' = TRUE
        /\ bme_status' = None
        /\ UNCHANGED <<temp_oss, press_oss, hum_oss, bme_regs>>

BmeReadGasForTemperature ==
    \E temperature \in {425, 426, 599, 600}, e \in GasEnv :
        /\ \E r \in {readGasForTemperature(BmeBus, BmeNow, temperature, e)} :
              BmeDone("readGasForTemperature", <<temperature>>, None, r,
                      e.pre /\ e.failAt = 0, StatusRead(r, e))
        /\ UNCHANGED <<allowHighTemps, temp_oss, press_oss, hum_oss>>

BmeReadGas ==
    \E profile \in {-1, 0, 9, 10}, e \in GasEnv :
        /\ e.pre
        /\ \E r \in {readGas(BmeBus, BmeNow, profile, e)} :
              BmeDone("readGas", <<profile>>, None, r, e.failAt = 0, StatusRead(r, e))
        /\ UNCHANGED <<allowHighTemps, temp_oss, press_oss, hum_oss>>

\* startGasMeasurement(profile, waitTime) called directly, as the driver's
\* callers do: waitTime is the wait of the profile.
BmeStartGasMeasurement ==
    \E profile \in {0, 8}, e \in GasEnv :
        /\ e.pre
        /\ \E r \in {startGasMeasurement(BmeBus, BmeNow, profile,
                        GasWait(readUCGas(BME_688_GAS_START_TEMP + profile * 25), 17), e)} :
              BmeDone("startGasMeasurement", <<profile>>, None, r, e.failAt = 0,
                      StatusRead(r, e))
        /\ UNCHANGED <<allowHighTemps, temp_oss, press_oss, hum_oss>>

\* The target temperatures of the heater-resistance writes of the last call.
HeaterTargets ==
    { bme_writes[i][2][2] : i \in { j \in DOMAIN bme_writes :
        /\ bme_writes[j][1] \in BME_688_GAS_RES_HEAT_PROFILE_REG ..
                                  (BME_688_GAS_RES_HEAT_PROFILE_REG + 9)
        /\ bme_writes[j][2][1] = "res_heat" } }

BmeWrote(reg, value) == \E i \in DOMAIN bme_writes : bme_writes[i] = <<reg, value>>

C10_BeginSetsModeAndOversampling ==
    (bme_op[1] = "begin" /\ bme_bus) =>
        LET mode == IF bme_op[2] = None THEN 1 ELSE bme_op[2][1]
            oss == IF bme_op[3] = None THEN 1 ELSE bme_op[3][1]
        IN  IF mode > 2 \/ oss > 5
            THEN bme_ret = Bool(FALSE) /\ bme_writes = <<>>
            ELSE /\ bme_ret[1] = "bool"
                 /\ bme_regs[114] = IntVal(oss)
                 /\ bme_regs[116] = IntVal(oss * 32 + oss * 4 + mode)

\* The heating profile indexes that readGas accepts: it starts a measurement
\* instead of returning -1.0.
AcceptedProfiles ==
    { p \in -1..(HeatProfilesAccepted + 1) :
        \E e \in GasEnv : readGas(BmeBus, BmeNow, p, e).ret # Float(-1) }

\* The last call was a begin on a working bus whose calibration reads
\* succeeded: readCalibParams went on to setHeatProfiles.
BeginSetProfiles ==
    /\ bme_op[1] = "begin"
    /\ bme_bus
    /\ BmeWrote(BME_688_GAS_RES_HEAT_PROFILE_REG,
                readUCGas(BME_688_GAS_START_TEMP))

\* C11: every heating profile index that readGas accepts (0 through 9) has had
\* its gas-wait and heater-resistance registers written by setHeatProfiles
\* during a begin whose calibration reads succeeded; for any other index
\* readGas returns -1.0 without a bus write.
C11_AcceptedProfilesConfigured ==
    /\ AcceptedProfiles = 0..9
    /\ BeginSetProfiles =>
          \A p \in AcceptedProfiles :
              LET gasTemp == readUCGas(BME_688_GAS_START_TEMP + p * 25)
              IN  /\ BmeWrote(BME_688_GAS_RES_HEAT_PROFILE_REG + p, gasTemp)
                  /\ bme_regs[BME_688_GAS_RES_HEAT_PROFILE_REG + p] = gasTemp
                  /\ BmeWrote(BME_688_GAS_WAIT_PROFILE_REG + p, GasWait(gasTemp, 22))
    /\ (bme_op[1] = "readGas" /\ bme_op[2][1] \notin AcceptedProfiles) =>
          bme_ret = Float(-1) /\ bme_writes = <<>>

\* The parts of C11 that the code keeps: the accepted indexes are 0 through 9,
\* any other index returns -1.0 without a bus write, and the profiles that
\* setHeatProfiles writes are those below HeatProfilesWritten.
C11_ProfilesBelowNine ==
    /\ AcceptedProfiles = 0..9
    /\ BeginSetProfiles =>
          \A p \in 0..9 :
              BmeWrote(BME_688_GAS_RES_HEAT_PROFILE_REG + p,
                       readUCGas(BME_688_GAS_START_TEMP + p * 25))
                  <=> p < HeatProfilesWritten
    /\ (bme_op[1] = "readGas" /\ bme_op[2][1] \notin AcceptedProfiles) =>
          bme_ret = Float(-1) /\ bme_writes = <<>>

\* The last call ran startGasMeasurement: directly, or from readGas or
\* readGasForTemperature when they did not refuse their argument.
Measured ==
    /\ bme_op[1] \in {"startGasMeasurement", "readGas", "readGasForTemperature"}
    /\ bme_ret # Float(-1)

\* Both the gas-valid bit and the heater-stability bit of a status byte are set.
Stabilised(status) ==
    /\ BitAnd(status, BME_688_GAS_VALID_REG_MASK) # 0
    /\ BitAnd(status, BME_688_GAS_HEAT_STAB_MASK) # 0

\* C12: startGasMeasurement returns None when a bus transaction of the
\* sequence fails; otherwise it computes a gas resistance only when both the
\* gas-valid bit (0x20) and the heater-stability bit (0x10) of the status byte
\* are set, and returns -2.0 in every other case.
C12_NotStabilisedIsMinusTwo ==
    Measured =>
        IF ~bme_bus THEN bme_ret = None
        ELSE IF Stabilised(bme_status[1]) THEN bme_ret[1] = "ohm"
        ELSE bme_ret = Float(-2)

\* What the code does instead: -2.0 only when neither bit is set.
C12_EitherBitPasses ==
    Measured =>
        IF ~bme_bus THEN bme_ret = None
        ELSE IF BitAnd(bme_status[1], BME_688_GAS_VALID_REG_MASK
                                        + BME_688_GAS_HEAT_STAB_MASK) # 0
        THEN bme_ret[1] = "ohm"
        ELSE bme_ret = Float(-2)

(***************************************************************************)
(* VL53L1X with an interrupt pin, and the example that uses it              *)
(* (src/Sensors/LaserDistanceSensor/LaserDistanceSensor/VL53L1X.py,         *)
(*  .../Examples/LaserDistanceSensor-MeasureOnInterrupt.py)                 *)
(***************************************************************************)
MaxInterrupts == 3

\* The distances sensor.read() may return, in mm: below, inside and above the
\* window 100..300 of the example.
Distances == {50, 200, 400}

\* detected = 0; VL53L1X(interruptPin=34, interruptCallback=my_interrupt_handler):
\* the sensor is reset, the callback is registered for the falling edge of
\* the pin and enable_interrupt asks for an active-low line that clears on
\* read. Whether the chip releases the line on a read is the chip's matter:
\* both are possible.
IrqInit ==
    /\ detected = 0
    /\ irq_pc = "start_ranging"
    /\ gpio1 = 1
    /\ ranging = FALSE
    /\ clearOnRead \in BOOLEAN
    /\ dist = 0
    /\ irq_calls = 0
    /\ irq_pending = FALSE

\* my_interrupt_handler(pin)
my_interrupt_handler ==
    /\ detected' = 1
    /\ irq_calls' = irq_calls + 1
    /\ irq_pending' = TRUE

\* The ranging sensor has a measurement outside the window: it pulls the
\* released line low, and the falling edge invokes the registered callback.
SensorInterrupt ==
    /\ ranging
    /\ gpio1 = 1
    /\ irq_calls < MaxInterrupts
    /\ gpio1' = 0
    /\ my_interrupt_handler
    /\ UNCHANGED <<irq_pc, ranging, clearOnRead, dist>>

\* sensor.start_ranging(): clear the interrupt, start continuous ranging
start_ranging ==
    /\ irq_pc = "start_ranging"
    /\ gpio1' = 1
    /\ ranging' = TRUE
    /\ irq_pc' = "if_detected"
    /\ UNCHANGED <<detected, clearOnRead, dist, irq_calls, irq_pending>>

\* if detected:
IfDetected ==
    /\ irq_pc = "if_detected"
    /\ irq_pc' = IF detected # 0 THEN "read" ELSE "start_ranging"
    /\ UNCHANGED <<detected, gpio1, ranging, clearOnRead, dist, irq_calls, irq_pending>>

\* dist = sensor.read(): the event is handled
SensorRead ==
    /\ irq_pc = "read"
    /\ dist' \in Distances
    /\ gpio1' = IF clearOnRead THEN 1 ELSE gpio1
    /\ irq_pending' = FALSE
    /\ irq_pc' = "print"
    /\ UNCHANGED <<detected, ranging, clearOnRead, irq_calls>>

\* the two print calls
PrintDistance ==
    /\ irq_pc = "print"
    /\ irq_pc' = "reset"
    /\ UNCHANGED <<detected, gpio1, ranging, clearOnRead, dist, irq_calls, irq_pending>>

\* detected = 0
ResetDetected ==
    /\ irq_pc = "reset"
    /\ detected' = 0
    /\ irq_pc' = "start_ranging"
    /\ UNCHANGED <<gpio1, ranging, clearOnRead, dist, irq_calls, irq_pending>>

\* C13: in the interrupt-flag pattern an interrupt is not lost under any
\* interleaving of the callback with the main loop: while a callback
\* invocation has not been followed by a handling, the flag is still set, so
\* the main loop's next test finds it.
C13_InterruptNotLost == irq_pending => detected = 1

\* C13, in its words: every callback invocation is eventually followed by a
\* main-loop handling.
C13_EveryInterruptHandled == irq_pending ~> ~irq_pending

(***************************************************************************)
(* Specifications: one per driver                                          *)
(***************************************************************************)
InitAll == QInit /\ BmpInit /\ TmpInit /\ DrvInit /\ DsInit /\ BmeInit /\ IrqInit

\* The program holds one driver object, of one of these classes.
Holds(classes) == driver \in classes /\ InitAll

\* What a call on one driver leaves alone: the other drivers' state.
QOthers == UNCHANGED <<driver, bvars, tvars, dvars, svars, evars, ivars>>

BmpOthers == UNCHANGED <<driver, qvars, tvars, dvars, svars, evars, ivars>>

TmpOthers == UNCHANGED <<driver, qvars, bvars, dvars, svars, evars, ivars>>

DrvOthers == UNCHANGED <<driver, qvars, bvars, tvars, svars, evars, ivars>>

DsOthers == UNCHANGED <<driver, qvars, bvars, tvars, dvars, evars, ivars>>

BmeOthers == UNCHANGED <<driver, qvars, bvars, tvars, dvars, svars, ivars>>

IrqOthers == UNCHANGED <<driver, qvars, bvars, tvars, dvars, svars, evars>>

QNext ==
    \/ SendAddress /\ QOthers
    \/ SendData /\ QOthers
    \/ ReadData /\ QOthers
    \/ ReadRegister /\ QOthers
    \/ GetDuration /\ QOthers
    \/ GetDistance /\ QOthers
    \/ GetReading /\ QOthers
    \/ GetCount /\ QOthers
    \/ GetState /\ QOthers

SpecQwiic == Holds({"Qwiic"}) /\ [][QNext]_vars

\* Calls in any order; the example loop's position is not involved.
BmpNext ==
    \/ BmpSetMode /\ UNCHANGED bmp_pc /\ BmpOthers
    \/ BmpStartForcedConversion /\ UNCHANGED bmp_pc /\ BmpOthers
    \/ BmpGetTemperature /\ UNCHANGED bmp_pc /\ BmpOthers
    \/ BmpGetPressure /\ UNCHANGED bmp_pc /\ BmpOthers
    \/ BmpGetTempPres /\ UNCHANGED bmp_pc /\ BmpOthers
    \/ BmpGetAltitude /\ UNCHANGED bmp_pc /\ BmpOthers
    \/ BmpGetMeasurements /\ UNCHANGED bmp_pc /\ BmpOthers
    \/ SensorConvert /\ UNCHANGED bmp_pc /\ BmpOthers

SpecBMP == Holds({"BMP388"}) /\ [][BmpNext]_vars

\* The drivers whose operations re-issue a write: a program holds one of them.
RetryNext ==
    \/ driver = "BMP388" /\ BmpBegin /\ UNCHANGED bmp_pc /\ BmpOthers
    \/ driver = "BMP388" /\ BmpSetMode /\ UNCHANGED bmp_pc /\ BmpOthers
    \/ driver = "BMP388" /\ SensorConvert /\ UNCHANGED bmp_pc /\ BmpOthers
    \/ driver = "TMP117" /\ TmpSetAlertCallback /\ TmpOthers
    \/ driver = "TMP117" /\ TmpSetAlertMode /\ TmpOthers
    \/ driver = "TMP117" /\ TmpSensorAlert /\ TmpOthers

SpecRetry == Holds({"BMP388", "TMP117"}) /\ [][RetryNext]_vars

\* The steps of the forced-measurement example and of the sensor.
Start == LoopStart /\ BmpOthers

Poll == LoopPoll /\ BmpOthers

Sleep == LoopSleep /\ BmpOthers

Convert == SensorConvert /\ UNCHANGED bmp_pc /\ BmpOthers

LoopNext == Start \/ Poll \/ Sleep \/ Convert

DrvNext ==
    \/ DrvBegin /\ DrvOthers
    \/ DrvSetStepsPerRotation /\ DrvOthers
    \/ DrvSetDirection /\ DrvOthers
    \/ DrvStep /\ DrvOthers
    \/ DrvResetSteps /\ DrvOthers
    \/ DrvSetPosition /\ DrvOthers

SpecDRV == Holds({"DRV8825"}) /\ [][DrvNext]_vars

DsNext ==
    \/ DsWriteToSRAM /\ DsOthers
    \/ DsWriteToSRAMBuffer /\ DsOthers
    \/ DsWriteToSRAMValue /\ DsOthers
    \/ DsReadFromSRAM /\ DsOthers
    \/ DsReadFromSRAMBuffer /\ DsOthers
    \/ DsReadFromSRAMValue /\ DsOthers

SpecDS == Holds({"DS3234"}) /\ [][DsNext]_vars

BmeNext ==
    \/ BmeBegin /\ BmeOthers
    \/ BmeIgnoreUnsafeTemperatureWarnings /\ BmeOthers
    \/ BmeReadGasForTemperature /\ BmeOthers
    \/ BmeReadGas /\ BmeOthers
    \/ BmeStartGasMeasurement /\ BmeOthers

SpecBME == Holds({"BME688"}) /\ [][BmeNext]_vars

\* The main loop keeps running and the sensor completes the conversions it
\* was asked to perform.
\* The example's main loop, statement by statement, and the sensor. The main
\* loop is the only thread of the program and never blocks: each of its
\* statements is eventually run. Nothing obliges the sensor to interrupt.
StartRanging == start_ranging /\ IrqOthers

Test == IfDetected /\ IrqOthers

Read == SensorRead /\ IrqOthers

Report == PrintDistance /\ IrqOthers

Reset == ResetDetected /\ IrqOthers

Interrupt == SensorInterrupt /\ IrqOthers

IrqNext == StartRanging \/ Test \/ Read \/ Report \/ Reset \/ Interrupt

SpecIrq ==
    /\ Holds({"VL53L1X"})
    /\ [][IrqNext]_vars
    /\ WF_vars(StartRanging)
    /\ WF_vars(Test)
    /\ WF_vars(Read)
    /\ WF_vars(Report)
    /\ WF_vars(Reset)

SpecForced ==
    /\ Holds({"BMP388"})
    /\ [][LoopNext]_vars
    /\ WF_vars(Start)
    /\ WF_vars(Poll)
    /\ WF_vars(Sleep)
    /\ WF_vars(Convert)

====
